---------------------------- MODULE Spec2Model ----------------------------
(***************************************************************************)
(* A state-machine model of src/script.js: the DOMContentLoaded callback   *)
(* that wires the mobile navigation toggle, the scroll reveal, the marquee *)
(* pause controls, the hero parallax, the card tilt and the keyboard focus *)
(* outline, and the event handlers it installs.                            *)
(*                                                                         *)
(* The document (which elements exist), the reduced-motion preference and  *)
(* the availability of IntersectionObserver are fixed but arbitrary: Init  *)
(* draws them.  Every handler runs to completion (one action per dispatched*)
(* event, all listeners on the event's path included).                     *)
(***************************************************************************)
EXTENDS Integers, Sequences, FiniteSets

(* ------------------------------ bounds --------------------------------- *)
\* number of elements matching '.reveal'
NumReveals == 2
\* number of elements matching '.marquee'
NumMarquees == 1
\* number of '.leaf' elements inside the hero
NumLeaves == 2
\* number of elements matching '.card'
NumCards == 2
\* longest batch of entries handed to one IntersectionObserver callback
MaxEntries == 2
\* pointer coordinates inside a box are sampled at k / (2 * Half), k in 0..2*Half
Half == 1

Reveals == 1..NumReveals
Marquees == 1..NumMarquees
Leaves == 0..(NumLeaves - 1)
Cards == 1..NumCards

(* ------------------------------ state ---------------------------------- *)
VARIABLES
    phase,                  \* "loading" before DOMContentLoaded, then "ready"
    prefersReducedMotion,   \* matchMedia('(prefers-reduced-motion: reduce)').matches
    ioSupported,            \* 'IntersectionObserver' in window
    hasToggle,              \* document.querySelector('.menu-toggle') is not null
    hasNav,                 \* document.querySelector('.main-nav') is not null
    hasHero,                \* document.querySelector('.hero') is not null
    hasContent,             \* per marquee: m.querySelector('.marquee-content') is not null
    listeners,              \* the listeners installed so far, <<target, index, type>>
    ariaExpanded,           \* the toggle's aria-expanded attribute ("null" when absent)
    navStyle,               \* the nav's inline style
    visible,                \* the reveal elements whose classList holds 'visible'
    ioCreated,              \* an IntersectionObserver has been constructed
    observed,               \* the reveal elements the observer currently observes
    observeCalls,           \* number of io.observe calls made
    contentStyle,           \* per marquee: the content's inline style (longhands)
    hover,                  \* per marquee: the pointer is over the marquee
    focusWithin,            \* per marquee: keyboard focus is inside the marquee
    leafTransform,          \* per leaf: inline style.transform
    cardTransform,          \* per card: inline style.transform
    usingKeyboard,          \* the closure variable of keyboardFocusOutline
    usingKeyboardClass,     \* documentElement.classList contains 'using-keyboard'
    ev                      \* the event whose dispatch produced this state

config == <<prefersReducedMotion, ioSupported, hasToggle, hasNav, hasHero, hasContent>>
navVars == <<ariaExpanded, navStyle>>
revealVars == <<visible, ioCreated, observed, observeCalls>>
marqueeVars == <<contentStyle, hover, focusWithin>>
pointerVars == <<leafTransform, cardTransform>>
modalityVars == <<usingKeyboard, usingKeyboardClass>>
vars == <<phase, config, listeners, navVars, revealVars, marqueeVars,
          pointerVars, modalityVars, ev>>

\* An event record: its type, the element it is dispatched to (and which one,
\* for indexed elements), for a keydown its key, for an observer callback
\* its entries, for a pointermove its position, and the listeners that were
\* invoked during its dispatch.
Event(type, target, index, key) ==
    [type |-> type, target |-> target, index |-> index, key |-> key,
     entries |-> <<>>, point |-> <<>>, ran |-> {}]

IntersectionEvent(entries) ==
    [type |-> "intersection", target |-> "reveal", index |-> 0, key |-> "",
     entries |-> entries, point |-> <<>>, ran |-> {}]

Listener(target, index, type) == <<target, index, type>>

\* Event e after its dispatch along a path holding the listeners `path`:
\* those of them that are installed were invoked.
Dispatched(e, path) == [e EXCEPT !.ran = path \cap listeners]

\* Pointer event e at position p (clientX, clientY relative to the box).
PointerAt(e, p) == [e EXCEPT !.point = p]

(* --------------------------- navigation -------------------------------- *)
EmptyNavStyle ==
    [display |-> "", flexDirection |-> "", position |-> "", right |-> "",
     top |-> "", background |-> "", padding |-> "", borderRadius |-> "",
     boxShadow |-> ""]

\* The nav part of the document a handler reads and writes.
NavDom == [ariaExpanded |-> ariaExpanded, navStyle |-> navStyle]

openNav(d) ==
    IF ~hasNav THEN d
    ELSE [ariaExpanded |-> "true",
          navStyle |-> [d.navStyle EXCEPT
              !.display = "block",
              !.flexDirection = "column",
              !.position = "absolute",
              !.right = "28px",
              !.top = "72px",
              !.background = "rgba(255,255,255,0.95)",
              !.padding = "12px",
              !.borderRadius = "10px",
              !.boxShadow = "0 10px 30px rgba(10,20,10,0.08)"]]

\* A variant of closeNav that clears the styles but leaves aria-expanded as
\* it was.
closeNavKeepsAria(d) ==
    IF ~hasNav THEN d
    ELSE [ariaExpanded |-> d.ariaExpanded, navStyle |-> EmptyNavStyle]

\* A variant of closeNav that forgets to clear the box shadow.
closeNavLeavesShadow(d) ==
    IF ~hasNav THEN d
    ELSE [ariaExpanded |-> "false",
          navStyle |-> [EmptyNavStyle EXCEPT !.boxShadow = d.navStyle.boxShadow]]

closeNav(d) ==
    IF ~hasNav THEN d
    ELSE [ariaExpanded |-> "false",
          navStyle |-> [d.navStyle EXCEPT
              !.display = "",
              !.flexDirection = "",
              !.position = "",
              !.right = "",
              !.top = "",
              !.background = "",
              !.padding = "",
              !.borderRadius = "",
              !.boxShadow = ""]]

\* Click targets: the toggle, the nav itself, a link inside the nav, and
\* anything else in the document.
ClickTargets == {"toggle", "nav", "navLink", "outside"}

\* nav.contains(e.target), toggle.contains(e.target)
NavContains(target) == target \in {"nav", "navLink"}
ToggleContains(target) == target = "toggle"

\* The toggle's click listener (without its stopPropagation call).
ToggleClick(d) ==
    LET expanded == d.ariaExpanded = "true"
    IN  IF expanded THEN closeNav(d) ELSE openNav(d)

\* A variant of the toggle's click listener without the stopPropagation call.
StopsPropagationMissing == FALSE

\* e.stopPropagation() at the end of the toggle's click listener.
StopsPropagation == TRUE

\* A variant of the document's click listener without the nav.contains test.
DocumentClickIgnoresNav(d, target) ==
    IF d.navStyle.display = "block" /\ ~ToggleContains(target)
    THEN closeNav(d)
    ELSE d

\* The document's click listener.
DocumentClick(d, target) ==
    IF d.navStyle.display = "block" /\ ~NavContains(target) /\ ~ToggleContains(target)
    THEN closeNav(d)
    ELSE d

\* A variant of the document's keydown listener that closes on every Escape,
\* without looking at nav.style.display.
DocumentKeydownUnguarded(d, key) ==
    IF key = "Escape" THEN closeNav(d) ELSE d

\* The document's keydown listener.
DocumentKeydown(d, key) ==
    IF key = "Escape" /\ d.navStyle.display = "block"
    THEN closeNav(d)
    ELSE d

(* --------------------------- scroll reveal ----------------------------- *)
\* { threshold: 0.12 }, in percent of the element's area
Threshold == 12

\* Visible fractions (percent) an entry may report.
Ratios == {0, 11, 12, 100}

\* The index of the first threshold greater than the ratio, over the one
\* threshold the observer is built with: 0 below 12%, 1 from 12% on.
ThresholdIndex(ratio) == IF ratio >= Threshold THEN 1 ELSE 0

\* A variant for an observer built without the threshold option: any overlap
\* counts.
IsIntersectingAnyOverlap(ratio) == ratio > 0

\* entry.isIntersecting as the engines report it: the ratio has reached the
\* observer's lowest threshold.
IsIntersecting(ratio) == ThresholdIndex(ratio) > 0

\* Batches of entries of length 1..n over the observed targets.
Batches(n) ==
    UNION {[1..len -> [target : observed, ratio : Ratios]] : len \in 1..n}

RECURSIVE RevealEntriesToggle(_, _)
\* A variant of the callback that mirrors the intersection state
\* (classList.toggle('visible', entry.isIntersecting)) and keeps observing.
RevealEntriesToggle(r, entries) ==
    IF entries = <<>> THEN r
    ELSE LET entry == Head(entries)
             r1 == IF IsIntersecting(entry.ratio)
                   THEN [r EXCEPT !.visible = r.visible \cup {entry.target}]
                   ELSE [r EXCEPT !.visible = r.visible \ {entry.target}]
         IN  RevealEntriesToggle(r1, Tail(entries))

RECURSIVE RevealEntriesKeepsObserving(_, _)
\* A variant of the callback without the observer.unobserve call.
RevealEntriesKeepsObserving(r, entries) ==
    IF entries = <<>> THEN r
    ELSE LET entry == Head(entries)
             r1 == IF IsIntersecting(entry.ratio)
                   THEN [r EXCEPT !.visible = r.visible \cup {entry.target}]
                   ELSE r
         IN  RevealEntriesKeepsObserving(r1, Tail(entries))

RECURSIVE RevealEntries(_, _)
\* entries.forEach(entry => ...) of the observer callback, on the pair
\* [visible, observed].
RevealEntries(r, entries) ==
    IF entries = <<>> THEN r
    ELSE LET entry == Head(entries)
             r1 == IF IsIntersecting(entry.ratio)
                   THEN [visible |-> r.visible \cup {entry.target},
                         observed |-> r.observed \ {entry.target}]
                   ELSE r
         IN  RevealEntries(r1, Tail(entries))

\* A variant of the test at line 73 that forgets the reduced-motion preference.
ObservationPathIgnoresMotion == ioSupported

\* The branch taken at line 73.
ObservationPath == ~prefersReducedMotion /\ ioSupported

(* ------------------------------ marquee -------------------------------- *)
EmptyContentStyle ==
    [animationName |-> "", animationPlayState |-> "", transform |-> ""]

\* content.style.animation = 'none': the shorthand sets every animation
\* longhand, the omitted ones to their initial value.
SetAnimationNone(st) ==
    [st EXCEPT !.animationName = "none", !.animationPlayState = "running"]

\* The value the four marquee listeners assign to animationPlayState.
MarqueePlayState(type) ==
    CASE type = "pointerenter" -> "paused"
      [] type = "pointerleave" -> ""
      [] type = "focusin" -> "paused"
      [] type = "focusout" -> ""

MarqueeEventTypes == {"pointerenter", "pointerleave", "focusin", "focusout"}

\* A variant of the marquee listeners that resumes by clearing the animation
\* shorthand (content.style.animation = '') instead of animationPlayState.
MarqueeListenerClearsAnimation(st, type) ==
    IF type \in {"pointerleave", "focusout"}
    THEN [st EXCEPT !.animationName = "", !.animationPlayState = ""]
    ELSE [st EXCEPT !.animationPlayState = "paused"]

\* One of the four marquee listeners, on the content's inline style.
MarqueeListener(st, type) ==
    [st EXCEPT !.animationPlayState = MarqueePlayState(type)]

\* if (prefersReducedMotion) { animation = 'none'; transform = 'translateX(0)' }
ReducedMotionMarquee(st) ==
    IF prefersReducedMotion
    THEN [SetAnimationNone(st) EXCEPT !.transform = "translateX(0)"]
    ELSE st

(* ------------------------- hero parallax, card tilt -------------------- *)
\* A pointer position inside a bounding box: <<kx, ky>> stands for
\* (clientX - rect.left) / rect.width = kx / Den and likewise for y.
Den == 2 * Half
Coords == 0..Den
Points == Coords \X Coords
Centre == <<Half, Half>>
TopLeft == <<0, 0>>

\* style.transform = ''
NoTransform == <<>>

\* A variant of the leaf transform whose depth is i * 6 instead of (i + 1) * 6.
LeafTransformDepthFromIndex(i, p) ==
    LET x == p[1] - Half
        y == p[2] - Half
        depth == i * 6
        baseRotate == IF (i % 2) # 0 THEN -12 ELSE 6
    IN  <<x * depth, y * depth, baseRotate>>

\* The leaf transform of the hero's pointermove listener, as
\* <<tx, ty, rotate>>: translate(tx/Den px, ty/Den px) rotate(rotate deg).
LeafTransform(i, p) ==
    LET x == p[1] - Half      \* (x in the code) * Den
        y == p[2] - Half
        depth == (i + 1) * 6
        baseRotate == IF (i % 2) # 0 THEN -12 ELSE 6
    IN  <<x * depth, y * depth, baseRotate>>

\* A variant of the card transform with the two axes exchanged: rotateX from
\* px and rotateY from py.
CardTransformAxesSwapped(p) ==
    LET px == p[1]
        py == p[2]
        rotateX == (px - Half) * 6
        rotateY == (py - Half) * (-6)
    IN  <<rotateX, rotateY>>

\* The card transform of a card's pointermove listener, as <<rotateX, rotateY>>
\* in units of 1/Den degree: perspective(600px) rotateX(..) rotateY(..).
CardTransform(p) ==
    LET px == p[1]            \* (px in the code) * Den
        py == p[2]
        rotateX == (py - Half) * 6
        rotateY == (px - Half) * (-6)
    IN  <<rotateX, rotateY>>

(* ------------------------------ modality ------------------------------- *)
Keys == {"Escape", "Tab", "a"}

\* A variant of the window's keydown listener without the test of e.key.
WindowKeydownAnyKey(k, key) ==
    [usingKeyboard |-> TRUE, usingKeyboardClass |-> TRUE]

\* The window's keydown listener, on [usingKeyboard, usingKeyboardClass].
WindowKeydown(k, key) ==
    IF key = "Tab"
    THEN [usingKeyboard |-> TRUE, usingKeyboardClass |-> TRUE]
    ELSE k

\* A variant of the window's mousedown listener that resets the flag but
\* leaves the class on the document element.
WindowMousedownKeepsClass(k) ==
    IF k.usingKeyboard
    THEN [k EXCEPT !.usingKeyboard = FALSE]
    ELSE k

\* The window's mousedown listener.
WindowMousedown(k) ==
    IF k.usingKeyboard
    THEN [usingKeyboard |-> FALSE, usingKeyboardClass |-> FALSE]
    ELSE k

(* -------------------------- initial states ----------------------------- *)
\* The page before DOMContentLoaded: no listener, no inline style, the
\* toggle's aria-expanded either absent or "false".
Init ==
    /\ phase = "loading"
    /\ prefersReducedMotion \in BOOLEAN
    /\ ioSupported \in BOOLEAN
    /\ hasToggle \in BOOLEAN
    /\ hasNav \in BOOLEAN
    /\ hasHero \in BOOLEAN
    /\ hasContent \in [Marquees -> BOOLEAN]
    /\ listeners = {}
    /\ ariaExpanded \in {"null", "false"}
    /\ navStyle = EmptyNavStyle
    /\ visible = {}
    /\ ioCreated = FALSE
    /\ observed = {}
    /\ observeCalls = 0
    /\ contentStyle = [m \in Marquees |-> EmptyContentStyle]
    /\ hover = [m \in Marquees |-> FALSE]
    /\ focusWithin = [m \in Marquees |-> FALSE]
    /\ leafTransform = [i \in Leaves |-> NoTransform]
    /\ cardTransform = [c \in Cards |-> NoTransform]
    /\ usingKeyboard = FALSE
    /\ usingKeyboardClass = FALSE
    /\ ev = Event("none", "none", 0, "")

(* ---------------------------- initialisation --------------------------- *)
\* A variant of the nav block guarded by (toggle || nav).
NavListenersEitherPresent ==
    IF hasToggle \/ hasNav
    THEN {Listener("toggle", 0, "click"), Listener("document", 0, "click"),
          Listener("document", 0, "keydown")}
    ELSE {}

\* The listeners each block of the DOMContentLoaded callback installs.
NavListeners ==
    IF hasToggle /\ hasNav
    THEN {Listener("toggle", 0, "click"), Listener("document", 0, "click"),
          Listener("document", 0, "keydown")}
    ELSE {}

MarqueeListeners ==
    {Listener("marquee", m, type) : m \in {n \in Marquees : hasContent[n]},
                                    type \in MarqueeEventTypes}

\* A variant of the hero block that tests only for the hero's presence.
HeroListenersIgnoreMotion ==
    IF hasHero
    THEN {Listener("hero", 0, "pointermove"), Listener("hero", 0, "pointerleave")}
    ELSE {}

HeroListeners ==
    IF hasHero /\ ~prefersReducedMotion
    THEN {Listener("hero", 0, "pointermove"), Listener("hero", 0, "pointerleave")}
    ELSE {}

CardListeners ==
    IF ~prefersReducedMotion
    THEN {Listener("card", c, type) : c \in Cards,
                                      type \in {"pointermove", "pointerleave"}}
    ELSE {}

ModalityListeners ==
    {Listener("window", 0, "keydown"), Listener("window", 0, "mousedown")}

\* The whole DOMContentLoaded callback.
DOMContentLoaded ==
    /\ phase = "loading"
    /\ phase' = "ready"
    /\ listeners' = NavListeners \cup MarqueeListeners \cup HeroListeners
                        \cup CardListeners \cup ModalityListeners
    /\ IF ObservationPath
       THEN /\ ioCreated' = TRUE
            /\ observed' = Reveals
            /\ observeCalls' = observeCalls + Cardinality(Reveals)
            /\ visible' = visible
       ELSE /\ visible' = visible \cup Reveals
            /\ UNCHANGED <<ioCreated, observed, observeCalls>>
    /\ contentStyle' =
           [m \in Marquees |->
               IF hasContent[m]
               THEN ReducedMotionMarquee(contentStyle[m])
               ELSE contentStyle[m]]
    /\ ev' = Event("DOMContentLoaded", "document", 0, "")
    /\ UNCHANGED <<config, navVars, hover, focusWithin, pointerVars, modalityVars>>

(* ------------------------------- events -------------------------------- *)
\* A click on `target`: the toggle's listener when the target is inside the
\* toggle, then, unless propagation was stopped, the document's listener.
Click(target) ==
    /\ phase = "ready"
    /\ ToggleContains(target) => hasToggle
    /\ NavContains(target) => hasNav
    /\ LET onToggle == ToggleContains(target)
                          /\ Listener("toggle", 0, "click") \in listeners
           d1 == IF onToggle THEN ToggleClick(NavDom) ELSE NavDom
           stopped == onToggle /\ StopsPropagation
           d2 == IF ~stopped /\ Listener("document", 0, "click") \in listeners
                 THEN DocumentClick(d1, target)
                 ELSE d1
       IN  /\ ariaExpanded' = d2.ariaExpanded
           /\ navStyle' = d2.navStyle
           /\ ev' = Dispatched(Event("click", target, 0, ""),
                               (IF ToggleContains(target)
                                THEN {Listener("toggle", 0, "click")} ELSE {})
                               \cup (IF ~stopped
                                     THEN {Listener("document", 0, "click")} ELSE {}))
    /\ UNCHANGED <<phase, config, listeners, revealVars, marqueeVars,
                   pointerVars, modalityVars>>

\* A keydown: the document's listener, then the window's.
Keydown(key) ==
    /\ phase = "ready"
    /\ LET d == IF Listener("document", 0, "keydown") \in listeners
                THEN DocumentKeydown(NavDom, key)
                ELSE NavDom
           k0 == [usingKeyboard |-> usingKeyboard,
                  usingKeyboardClass |-> usingKeyboardClass]
           k == IF Listener("window", 0, "keydown") \in listeners
                THEN WindowKeydown(k0, key)
                ELSE k0
       IN  /\ ariaExpanded' = d.ariaExpanded
           /\ navStyle' = d.navStyle
           /\ usingKeyboard' = k.usingKeyboard
           /\ usingKeyboardClass' = k.usingKeyboardClass
    /\ ev' = Dispatched(Event("keydown", "document", 0, key),
                        {Listener("document", 0, "keydown"),
                         Listener("window", 0, "keydown")})
    /\ UNCHANGED <<phase, config, listeners, revealVars, marqueeVars, pointerVars>>

\* A mousedown anywhere: the window's listener.
Mousedown ==
    /\ phase = "ready"
    /\ LET k0 == [usingKeyboard |-> usingKeyboard,
                  usingKeyboardClass |-> usingKeyboardClass]
           k == IF Listener("window", 0, "mousedown") \in listeners
                THEN WindowMousedown(k0)
                ELSE k0
       IN  /\ usingKeyboard' = k.usingKeyboard
           /\ usingKeyboardClass' = k.usingKeyboardClass
    /\ ev' = Dispatched(Event("mousedown", "window", 0, ""),
                        {Listener("window", 0, "mousedown")})
    /\ UNCHANGED <<phase, config, listeners, navVars, revealVars, marqueeVars,
                   pointerVars>>

\* One invocation of the IntersectionObserver callback with a batch of
\* entries for targets the observer observes.
Intersection(entries) ==
    /\ phase = "ready"
    /\ ioCreated
    /\ LET r == RevealEntries([visible |-> visible, observed |-> observed], entries)
       IN  /\ visible' = r.visible
           /\ observed' = r.observed
    /\ ev' = IntersectionEvent(entries)
    /\ UNCHANGED <<phase, config, listeners, navVars, ioCreated, observeCalls,
                   marqueeVars, pointerVars, modalityVars>>

\* pointerenter / pointerleave / focusin / focusout on marquee m.  The
\* browser dispatches an enter only when the pointer (focus) was outside and a
\* leave only when it was inside.
MarqueeEvent(m, type) ==
    /\ phase = "ready"
    /\ CASE type = "pointerenter" -> ~hover[m]
         [] type = "pointerleave" -> hover[m]
         [] type = "focusin" -> ~focusWithin[m]
         [] type = "focusout" -> focusWithin[m]
    /\ hover' = IF type \in {"pointerenter", "pointerleave"}
                THEN [hover EXCEPT ![m] = (type = "pointerenter")]
                ELSE hover
    /\ focusWithin' = IF type \in {"focusin", "focusout"}
                      THEN [focusWithin EXCEPT ![m] = (type = "focusin")]
                      ELSE focusWithin
    /\ contentStyle' =
           IF Listener("marquee", m, type) \in listeners
           THEN [contentStyle EXCEPT ![m] = MarqueeListener(contentStyle[m], type)]
           ELSE contentStyle
    /\ ev' = Dispatched(Event(type, "marquee", m, ""),
                        {Listener("marquee", m, type)})
    /\ UNCHANGED <<phase, config, listeners, navVars, revealVars, pointerVars,
                   modalityVars>>

\* pointermove over the hero at point p.
HeroPointermove(p) ==
    /\ phase = "ready"
    /\ hasHero
    /\ leafTransform' =
           IF Listener("hero", 0, "pointermove") \in listeners
           THEN [i \in Leaves |-> LeafTransform(i, p)]
           ELSE leafTransform
    /\ ev' = Dispatched(PointerAt(Event("pointermove", "hero", 0, ""), p),
                        {Listener("hero", 0, "pointermove")})
    /\ UNCHANGED <<phase, config, listeners, navVars, revealVars, marqueeVars,
                   cardTransform, modalityVars>>

\* A variant of the hero's pointerleave whose listener resets nothing.
HeroPointerleaveKeepsTransforms ==
    /\ phase = "ready"
    /\ hasHero
    /\ ev' = Dispatched(Event("pointerleave", "hero", 0, ""),
                        {Listener("hero", 0, "pointerleave")})
    /\ UNCHANGED <<phase, config, listeners, navVars, revealVars, marqueeVars,
                   leafTransform, cardTransform, modalityVars>>

\* pointerleave on the hero.
HeroPointerleave ==
    /\ phase = "ready"
    /\ hasHero
    /\ leafTransform' =
           IF Listener("hero", 0, "pointerleave") \in listeners
           THEN [i \in Leaves |-> NoTransform]
           ELSE leafTransform
    /\ ev' = Dispatched(Event("pointerleave", "hero", 0, ""),
                        {Listener("hero", 0, "pointerleave")})
    /\ UNCHANGED <<phase, config, listeners, navVars, revealVars, marqueeVars,
                   cardTransform, modalityVars>>

\* pointermove over card c at point p.
CardPointermove(c, p) ==
    /\ phase = "ready"
    /\ cardTransform' =
           IF Listener("card", c, "pointermove") \in listeners
           THEN [cardTransform EXCEPT ![c] = CardTransform(p)]
           ELSE cardTransform
    /\ ev' = Dispatched(PointerAt(Event("pointermove", "card", c, ""), p),
                        {Listener("card", c, "pointermove")})
    /\ UNCHANGED <<phase, config, listeners, navVars, revealVars, marqueeVars,
                   leafTransform, modalityVars>>

\* A variant of a card's pointerleave whose listener resets every card.
CardPointerleaveResetsAll(c) ==
    /\ phase = "ready"
    /\ cardTransform' =
           IF Listener("card", c, "pointerleave") \in listeners
           THEN [d \in Cards |-> NoTransform]
           ELSE cardTransform
    /\ ev' = Dispatched(Event("pointerleave", "card", c, ""),
                        {Listener("card", c, "pointerleave")})
    /\ UNCHANGED <<phase, config, listeners, navVars, revealVars, marqueeVars,
                   leafTransform, modalityVars>>

\* pointerleave on card c.
CardPointerleave(c) ==
    /\ phase = "ready"
    /\ cardTransform' =
           IF Listener("card", c, "pointerleave") \in listeners
           THEN [cardTransform EXCEPT ![c] = NoTransform]
           ELSE cardTransform
    /\ ev' = Dispatched(Event("pointerleave", "card", c, ""),
                        {Listener("card", c, "pointerleave")})
    /\ UNCHANGED <<phase, config, listeners, navVars, revealVars, marqueeVars,
                   leafTransform, modalityVars>>

(* --------------------------- specifications ---------------------------- *)
\* The initial states with every optional element in the document and the
\* toggle's aria-expanded attribute written out.
InitComplete ==
    /\ Init
    /\ hasToggle /\ hasNav /\ hasHero
    /\ \A m \in Marquees : hasContent[m]
    /\ ariaExpanded = "false"

\* The pointer position the whole-page specification samples.
SamplePoints == {TopLeft}

NavEvents ==
    \/ \E target \in ClickTargets : Click(target)
    \/ \E key \in Keys : Keydown(key)
    \/ Mousedown

RevealEvents(n) ==
    \E entries \in Batches(n) : Intersection(entries)

MarqueeEvents ==
    \E m \in Marquees, type \in MarqueeEventTypes : MarqueeEvent(m, type)

HeroEvents(S) ==
    \/ \E p \in S : HeroPointermove(p)
    \/ HeroPointerleave

CardEvents(S) ==
    \/ \E c \in Cards, p \in S : CardPointermove(c, p)
    \/ \E c \in Cards : CardPointerleave(c)

\* The whole page: every event on a complete document, with single-entry
\* observer batches and pointer events at the sample point.
NextPage ==
    \/ DOMContentLoaded
    \/ NavEvents
    \/ RevealEvents(1)
    \/ MarqueeEvents
    \/ HeroEvents(SamplePoints)
    \/ CardEvents(SamplePoints)

SpecPage == InitComplete /\ [][NextPage]_vars

\* Clicks, keys and mouse buttons on any document.
NextNav == DOMContentLoaded \/ NavEvents

SpecNav == Init /\ [][NextNav]_vars

\* Observer callbacks with batches of up to MaxEntries entries.
NextReveal == DOMContentLoaded \/ RevealEvents(MaxEntries)

SpecReveal == InitComplete /\ [][NextReveal]_vars

\* Marquee hover and focus events on any document.
NextMarquee == DOMContentLoaded \/ MarqueeEvents

SpecMarquee == Init /\ [][NextMarquee]_vars

\* Pointer events on the hero, at every sampled point, on any document.
NextHero == DOMContentLoaded \/ HeroEvents(Points)

SpecHero == Init /\ [][NextHero]_vars

\* Pointer events on the cards, at every sampled point.
NextCards == DOMContentLoaded \/ CardEvents(Points)

SpecCards == InitComplete /\ [][NextCards]_vars

\* The corners and the centre of a box along its diagonal.
DiagonalPoints == {TopLeft, Centre, <<Den, Den>>}

\* Pointer events on the hero and on the cards together, at the diagonal
\* points, on any document.
NextPointer == DOMContentLoaded \/ HeroEvents(DiagonalPoints) \/ CardEvents(DiagonalPoints)

SpecPointer == Init /\ [][NextPointer]_vars

(* ------------------------------- claims -------------------------------- *)
\* nav.style.display === 'block'
NavOpen == navStyle.display = "block"

\* The nav component is wired: both the toggle and the nav exist.
NavPresent == hasToggle /\ hasNav

\* C1: the nav starts closed, aria-expanded is 'true' exactly when the nav's
\* inline display is 'block' in every reachable state, and every click on the
\* toggle flips the nav between closed and open.
C1_AriaMatchesDisplayAndToggleFlips ==
    /\ [](phase = "loading" => ~NavOpen)
    /\ []((ariaExpanded = "true") <=> NavOpen)
    /\ [][(ev'.type = "click" /\ ev'.target = "toggle" /\ NavPresent)
              => (NavOpen' <=> ~NavOpen)]_vars

\* C1 witness: the nav has just been opened by a click on the toggle.
C1_Witness ==
    /\ ev.type = "click" /\ ev.target = "toggle"
    /\ ariaExpanded = "true" /\ NavOpen

\* C2: a marquee's content is paused exactly when the pointer hovers the
\* marquee or focus is within it.
C2_PausedIffHoverOrFocus ==
    \A m \in Marquees :
        (phase = "ready" /\ hasContent[m]) =>
            ((contentStyle[m].animationPlayState = "paused")
                 <=> (hover[m] \/ focusWithin[m]))

\* Entry i of the last observer batch is for el and reports at least 12%.
ReportedAtThreshold(entries, el) ==
    \E i \in DOMAIN entries : entries[i].target = el /\ entries[i].ratio >= 12

\* C3: an observer callback gives 'visible' to a hidden element when one of
\* its entries reports the element at 12% or more, and leaves an element
\* hidden and observed when every entry for it is below 12%.
C3_RevealedAtTwelvePercent ==
    [][ev'.type = "intersection" =>
           \A el \in Reveals :
               el \notin visible =>
                   IF ReportedAtThreshold(ev'.entries, el)
                   THEN el \in visible'
                   ELSE el \notin visible' /\ (el \in observed => el \in observed')]_vars

\* C3 witness: one batch reported an element at 12%, now visible, and another
\* at 11%, still hidden and observed.
C3_Witness ==
    /\ ev.type = "intersection"
    /\ \E i, j \in DOMAIN ev.entries :
           /\ ev.entries[i].ratio = 12 /\ ev.entries[i].target \in visible
           /\ ev.entries[j].ratio = 11 /\ ev.entries[j].target \notin visible
           /\ ev.entries[j].target \in observed

\* C4: with the nav open, a click outside the nav and the toggle closes it
\* and a click inside the nav leaves it open; with the nav closed, a click
\* outside changes nothing.
C4_OutsideClickCloses ==
    [][(ev'.type = "click" /\ NavPresent) =>
           /\ (NavOpen /\ ev'.target = "outside")
                  => (~NavOpen' /\ ariaExpanded' = "false")
           /\ (NavOpen /\ ev'.target \in {"nav", "navLink"})
                  => (NavOpen' /\ UNCHANGED navVars)
           /\ (~NavOpen /\ ev'.target = "outside")
                  => UNCHANGED navVars]_vars

\* C4 witness: an outside click has left the nav closed with aria-expanded
\* 'false'.
C4_Witness ==
    /\ ev.type = "click" /\ ev.target = "outside"
    /\ NavPresent /\ ~NavOpen /\ ariaExpanded = "false"

\* C5: an Escape keydown closes an open nav (aria-expanded 'false', every
\* inline style cleared) and changes nothing of a closed one.
C5_EscapeCloses ==
    [][(ev'.type = "keydown" /\ ev'.key = "Escape") =>
           IF NavOpen
           THEN ariaExpanded' = "false" /\ navStyle' = EmptyNavStyle
           ELSE UNCHANGED navVars]_vars

\* C5 witness: Escape was pressed on a wired nav that is closed and whose
\* toggle still has no aria-expanded attribute.
C5_Witness ==
    /\ ev.type = "keydown" /\ ev.key = "Escape"
    /\ NavPresent /\ ~NavOpen /\ ariaExpanded = "null"

\* C6: no step of any kind takes 'visible' away from a reveal element.
C6_RevealMonotonic ==
    [][\A el \in Reveals : el \in visible => el \in visible']_vars

\* C6 witness: on the observation path, an element is visible after a later
\* observer callback that was about another element.
C6_Witness ==
    /\ ObservationPath
    /\ ev.type = "intersection"
    /\ \E el \in visible : \A i \in DOMAIN ev.entries : ev.entries[i].target # el

\* C7: once initialised with reduced motion active or without
\* IntersectionObserver, every reveal element is visible, no observer exists
\* and observe has never been called.
C7_EagerRevealWithoutObserver ==
    (phase = "ready" /\ (prefersReducedMotion \/ ~ioSupported)) =>
        /\ visible = Reveals
        /\ ~ioCreated
        /\ observeCalls = 0
        /\ observed = {}

\* C7 witness: initialised with reduced motion active although
\* IntersectionObserver is available.
C7_Witness ==
    /\ ev.type = "DOMContentLoaded"
    /\ prefersReducedMotion /\ ioSupported
    /\ visible = Reveals /\ observeCalls = 0

\* C8: the 'using-keyboard' class is absent at start, present after every Tab
\* keydown, absent after every mousedown, and untouched by anything else.
C8_KeyboardClassTracksTab ==
    /\ [](phase = "loading" => ~usingKeyboardClass)
    /\ [][LET tab == ev'.type = "keydown" /\ ev'.key = "Tab"
              mouse == ev'.type = "mousedown"
          IN  /\ tab => usingKeyboardClass'
              /\ mouse => ~usingKeyboardClass'
              /\ (~tab /\ ~mouse) => (usingKeyboardClass' = usingKeyboardClass)]_vars

\* C8 witness: a Tab keydown has just set the flag and the class.
C8_Witness ==
    /\ ev.type = "keydown" /\ ev.key = "Tab"
    /\ usingKeyboard /\ usingKeyboardClass

\* C9: with reduced motion active, every marquee content keeps animation
\* 'none' and transform 'translateX(0)' from initialisation on.
C9_ReducedMotionMarqueeStaysOff ==
    (phase = "ready" /\ prefersReducedMotion) =>
        \A m \in Marquees :
            hasContent[m] =>
                /\ contentStyle[m].animationName = "none"
                /\ contentStyle[m].transform = "translateX(0)"

\* C9 witness: under reduced motion a pointerleave listener has run while
\* focus is still inside the marquee.
C9_Witness ==
    /\ prefersReducedMotion
    /\ ev.type = "pointerleave" /\ ev.target = "marquee"
    /\ hasContent[ev.index] /\ focusWithin[ev.index]
    /\ contentStyle[ev.index].animationPlayState = ""
    /\ contentStyle[ev.index].animationName = "none"

\* C10: with reduced motion active no parallax or tilt listener is installed
\* and no leaf or card ever carries an inline transform.
C10_NoPointerEffectsUnderReducedMotion ==
    prefersReducedMotion =>
        /\ \A l \in listeners : l[1] \notin {"hero", "card"}
        /\ \A i \in Leaves : leafTransform[i] = NoTransform
        /\ \A c \in Cards : cardTransform[c] = NoTransform

\* C10 witness: under reduced motion a pointermove has been dispatched on
\* the hero.
C10_Witness ==
    /\ prefersReducedMotion /\ hasHero
    /\ ev.type = "pointermove" /\ ev.target = "hero"
    /\ \A i \in Leaves : leafTransform[i] = NoTransform

\* C11: after a pointermove at (px, py) in a card, the card's rotation is
\* rotateX = (py - 0.5) * 6 and rotateY = (px - 0.5) * -6 degrees: both 0 at
\* the centre, -3 and 3 at the top-left corner, and always within [-3, 3].
\* (Positions are px = point[1] / Den, py = point[2] / Den; angles are held
\* in units of 1 / Den degree.)
C11_TiltAngles ==
    (ev.type = "pointermove" /\ ev.target = "card" /\ ~prefersReducedMotion) =>
        LET px == ev.point[1]
            py == ev.point[2]
            t == cardTransform[ev.index]
        IN  /\ t = <<6 * py - 3 * Den, 3 * Den - 6 * px>>
            /\ t[1] >= -3 * Den /\ t[1] <= 3 * Den
            /\ t[2] >= -3 * Den /\ t[2] <= 3 * Den
            /\ (ev.point = Centre) => (t = <<0, 0>>)
            /\ (ev.point = TopLeft) => (t = <<-3 * Den, 3 * Den>>)

\* C11 witness: a pointermove at the bottom-left corner of a card has tilted
\* it to rotateX = 3, rotateY = 3.
C11_Witness ==
    /\ ~prefersReducedMotion
    /\ ev.type = "pointermove" /\ ev.target = "card"
    /\ ev.point = <<0, Den>>
    /\ cardTransform[ev.index] = <<3 * Den, 3 * Den>>

\* C12: after a pointermove at offset (x, y) from the hero's centre, leaf i is
\* translated by (x * (i + 1) * 6, y * (i + 1) * 6) pixels and rotated by 6
\* degrees (even i) or -12 degrees (odd i); at the centre every translation
\* is (0, 0), and leaf i's translation is (i + 1) times leaf 0's.
\* (x = point[1] / Den - 1/2; translations are held in units of 1 / Den px.)
C12_ParallaxTranslation ==
    (ev.type = "pointermove" /\ ev.target = "hero"
         /\ hasHero /\ ~prefersReducedMotion) =>
        \A i \in Leaves :
            LET t == leafTransform[i]
            IN  /\ t = <<(2 * ev.point[1] - Den) * (i + 1) * 3,
                         (2 * ev.point[2] - Den) * (i + 1) * 3,
                         IF i % 2 = 0 THEN 6 ELSE -12>>
                /\ (ev.point = Centre) => (t[1] = 0 /\ t[2] = 0)
                /\ t[1] = (i + 1) * leafTransform[0][1]
                /\ t[2] = (i + 1) * leafTransform[0][2]

\* C12 witness: a pointermove at the hero's top-left corner has moved leaf 0
\* by (-3, -3) px and leaf 1 by (-6, -6) px.
C12_Witness ==
    /\ hasHero /\ ~prefersReducedMotion
    /\ ev.type = "pointermove" /\ ev.target = "hero" /\ ev.point = TopLeft
    /\ leafTransform[0] = <<-3 * Den, -3 * Den, 6>>
    /\ leafTransform[1] = <<-6 * Den, -6 * Den, -12>>

\* C13: the dispatch of a click on the toggle invokes the toggle's listener
\* and not the document's click listener, and such a click on a closed nav
\* ends with the nav open and aria-expanded 'true'.
C13_ToggleClickContained ==
    /\ []((ev.type = "click" /\ ev.target = "toggle" /\ NavPresent)
              => ev.ran = {<<"toggle", 0, "click">>})
    /\ [][(ev'.type = "click" /\ ev'.target = "toggle" /\ NavPresent /\ ~NavOpen)
              => (navStyle'.display = "block" /\ ariaExpanded' = "true")]_vars

\* C13 witness: a click on the toggle of a closed nav, handled by the
\* toggle's listener alone, has left the nav open.
C13_Witness ==
    /\ ev.type = "click" /\ ev.target = "toggle"
    /\ ev.ran = {<<"toggle", 0, "click">>}
    /\ navStyle.display = "block"

\* The three listeners of the nav block.
NavListenerNames ==
    {<<"toggle", 0, "click">>, <<"document", 0, "click">>,
     <<"document", 0, "keydown">>}

\* C14: when the toggle or the nav is missing, no nav listener is installed
\* or invoked and no event changes aria-expanded or the nav's inline style,
\* while the reveal, marquee and modality blocks are initialised as usual and
\* a Tab keydown still sets the 'using-keyboard' class.
C14_NavAbsentDegradesGracefully ==
    /\ [](~NavPresent =>
              /\ listeners \cap NavListenerNames = {}
              /\ ev.ran \cap NavListenerNames = {}
              /\ navStyle = EmptyNavStyle
              /\ ariaExpanded # "true")
    /\ []((~NavPresent /\ phase = "ready") =>
              /\ {<<"window", 0, "keydown">>, <<"window", 0, "mousedown">>}
                     \subseteq listeners
              /\ \A m \in Marquees :
                     hasContent[m] => <<"marquee", m, "pointerenter">> \in listeners
              /\ IF ~prefersReducedMotion /\ ioSupported
                 THEN ioCreated /\ observed \cup visible = Reveals
                 ELSE visible = Reveals
              /\ (ev.type = "keydown" /\ ev.key = "Tab") => usingKeyboardClass)
    /\ [][~NavPresent => UNCHANGED navVars]_vars

\* C14 witness: the document has a toggle but no nav, and a click on the
\* toggle invoked no listener and left aria-expanded absent.
C14_Witness ==
    /\ hasToggle /\ ~hasNav
    /\ ev.type = "click" /\ ev.target = "toggle"
    /\ ev.ran = {}
    /\ ariaExpanded = "null"

\* C16: an Escape keydown leaves the modality flag and class unchanged, a Tab
\* keydown leaves the nav state unchanged, and a keydown of any other key
\* changes neither.
C16_KeydownPartition ==
    [][ev'.type = "keydown" =>
           /\ (ev'.key = "Escape") => UNCHANGED modalityVars
           /\ (ev'.key = "Tab") => UNCHANGED navVars
           /\ (ev'.key \notin {"Escape", "Tab"})
                  => UNCHANGED <<navVars, modalityVars>>]_vars

\* C16 witness: both keydown listeners ran for an Escape that closed the nav
\* and left the keyboard class, set by an earlier Tab, in place.
C16_Witness ==
    /\ ev.type = "keydown" /\ ev.key = "Escape"
    /\ ev.ran = {<<"document", 0, "keydown">>, <<"window", 0, "keydown">>}
    /\ usingKeyboardClass /\ usingKeyboard
    /\ ariaExpanded = "false" /\ ~NavOpen

\* The nav's inline style properties.
NavProperties == DOMAIN EmptyNavStyle

\* C19: closeNav clears exactly the properties openNav sets: the nav's inline
\* style is entirely empty whenever the nav is closed and is openNav's nine
\* values whenever it is open, and openNav and closeNav are idempotent.
C19_OpenCloseRoundTrip ==
    /\ {f \in NavProperties : openNav(NavDom).navStyle[f] # ""}
           = {f \in NavProperties :
                  closeNav(openNav(NavDom)).navStyle[f] # openNav(NavDom).navStyle[f]}
    /\ closeNav(openNav(NavDom)).navStyle = IF hasNav THEN EmptyNavStyle ELSE navStyle
    /\ ~NavOpen => navStyle = EmptyNavStyle
    /\ NavOpen => navStyle = openNav(NavDom).navStyle
    /\ openNav(openNav(NavDom)) = openNav(NavDom)
    /\ closeNav(closeNav(NavDom)) = closeNav(NavDom)

\* C19 witness: a click on the toggle has closed an open nav and every inline
\* style property is empty again.
C19_Witness ==
    /\ NavPresent
    /\ ev.type = "click" /\ ev.target = "toggle"
    /\ ariaExpanded = "false"
    /\ navStyle = EmptyNavStyle

\* The targets of the entries of a batch that report at least 12%.
RevealedBy(entries) ==
    {entries[i].target : i \in {j \in DOMAIN entries : entries[j].ratio >= 12}}

\* C15: once initialised, every reveal element is either observed and not
\* visible or visible and not observed; a callback's entries are all for
\* elements still observed, and it moves exactly the elements reported at 12%
\* or more from observed to visible, however often a target is repeated.
C15_ObservedOrVisible ==
    /\ [](phase = "ready" =>
              \A el \in Reveals : (el \in observed) # (el \in visible))
    /\ [][ev'.type = "intersection" =>
              /\ \A i \in DOMAIN ev'.entries :
                     /\ ev'.entries[i].target \in observed
                     /\ ev'.entries[i].target \notin visible
              /\ visible' = visible \cup RevealedBy(ev'.entries)
              /\ observed' = observed \ RevealedBy(ev'.entries)]_vars

\* C15 witness: one batch reported the same element twice at 12% or more; it
\* is visible and no longer observed.
C15_Witness ==
    /\ ev.type = "intersection"
    /\ Len(ev.entries) >= 2
    /\ ev.entries[1].target = ev.entries[2].target
    /\ ev.entries[1].ratio >= 12 /\ ev.entries[2].ratio >= 12
    /\ ev.entries[1].target \in visible
    /\ ev.entries[1].target \notin observed

\* C17: with reduced motion inactive, after a pointerleave on the hero every
\* leaf's inline transform is empty and after a pointerleave on a card that
\* card's inline transform is empty; a leaf or a card gains a transform only
\* in a pointermove on its own region.
C17_PointerleaveResets ==
    /\ []((~prefersReducedMotion /\ ev.type = "pointerleave" /\ ev.target = "hero")
              => \A i \in Leaves : leafTransform[i] = NoTransform)
    /\ []((~prefersReducedMotion /\ ev.type = "pointerleave" /\ ev.target = "card")
              => cardTransform[ev.index] = NoTransform)
    /\ [][/\ \A i \in Leaves :
                 (leafTransform[i] = NoTransform /\ leafTransform'[i] # NoTransform)
                     => (ev'.type = "pointermove" /\ ev'.target = "hero")
          /\ \A c \in Cards :
                 (cardTransform[c] = NoTransform /\ cardTransform'[c] # NoTransform)
                     => (ev'.type = "pointermove" /\ ev'.target = "card"
                             /\ ev'.index = c)]_vars

\* C17 witness: the hero's pointerleave listener ran and the leaves are back
\* to the default while a card still carries the transform of a pointermove.
C17_Witness ==
    /\ ~prefersReducedMotion /\ hasHero
    /\ ev.type = "pointerleave" /\ ev.target = "hero"
    /\ ev.ran = {<<"hero", 0, "pointerleave">>}
    /\ \A i \in Leaves : leafTransform[i] = NoTransform
    /\ \E c \in Cards : cardTransform[c] # NoTransform

\* C18: a pointermove or pointerleave on one card leaves the transform of
\* every other card unchanged.
C18_CardsIndependent ==
    [][ev'.target = "card" =>
           \A d \in Cards \ {ev'.index} : cardTransform'[d] = cardTransform[d]]_vars

\* C18 witness: a pointerleave reset one card while another card keeps its
\* tilt.
C18_Witness ==
    /\ ev.type = "pointerleave" /\ ev.target = "card"
    /\ cardTransform[ev.index] = NoTransform
    /\ \E d \in Cards \ {ev.index} : cardTransform[d] # NoTransform

=============================================================================
